---- MODULE Spec2Model ----
(***************************************************************************)
(* The Streamlit dashboard script src/app.py as a state machine.           *)
(*                                                                         *)
(* One run of the script is a linear pass: load_data (memoized by          *)
(* st.cache_data), the df.empty check, the overview metrics, the sidebar   *)
(* selectbox, the country filter and the three aggregations.  A user       *)
(* picking another option of the selectbox, or reloading the page, starts  *)
(* the next run.  The st.cache_data store outlives the runs.               *)
(*                                                                         *)
(* Conventions of the model:                                               *)
(*   - a DataFrame is a sequence of records, one per row, whose fields are *)
(*     the spreadsheet's column names;                                     *)
(*   - a blank cell of a text column is read by pandas as the float nan;   *)
(*     it is written NaN here and compared by Eq, which is false on NaN;   *)
(*   - Freelancer_Friction_Index is kept in tenths (8 stands for 0.8);     *)
(*   - a mean is the reduced fraction <<numerator, denominator>>; the      *)
(*     rounding of binary floating point is not modelled;                  *)
(*   - Price_USD and Freelancer_Friction_Index cells are never blank.      *)
(***************************************************************************)
EXTENDS Integers, Sequences, FiniteSets, TLC

\* ------------------------------------------------------------- bounds
MaxRows == 3
MaxExtra == 2
MaxBase == 11
MaxReads == 2

\* ---------------------------------------------------------- constants
TopN == 10
AllCountries == "All Countries"
NaN == "NaN"

\* Every text value of the model in Python's str order (code points).
StrOrder ==
    << "AU", "All Countries", "BR", "CA", "DE", "Dev", "FR", "Fixed", "GB",
       "Hourly", "IN", "JP", "NG", "PK", "US", "Writing", "ZA" >>

Rank(s) == CHOOSE i \in 1..Len(StrOrder) : StrOrder[i] = s

\* str.__lt__
StrLess(a, b) == Rank(a) < Rank(b)

\* The elementwise == of pandas: nan equals nothing, itself included.
Eq(a, b) == a # NaN /\ b # NaN /\ a = b

Min(a, b) == IF a <= b THEN a ELSE b

\* ------------------------------------------------------ the input file
Row(p, c, s, f, t) ==
    [Price_USD |-> p, client_country |-> c, Skill_Category |-> s,
     Freelancer_Friction_Index |-> f, Job_Type |-> t]

RowDomain ==
    { Row(100, "US", "Writing", 8, "Fixed"),
      Row(300, "US", "Dev", 2, "Hourly"),
      Row(200, "IN", "Dev", 3, "Fixed"),
      Row(200, NaN, "Writing", 3, "Fixed"),
      Row(100, "IN", NaN, 8, NaN),
      Row(300, AllCountries, "Dev", 2, "Fixed") }

Scenario ==
    << Row(100, "US", "Writing", 8, "Fixed"),
       Row(300, "US", "Dev", 2, "Hourly"),
       Row(200, "IN", "Dev", 3, "Fixed") >>

SeqsUpTo(S, n) == UNION { [1..k -> S] : k \in 0..n }

WideNames ==
    << "AU", "BR", "CA", "DE", "FR", "GB", "IN", "JP", "NG", "PK", "US", "ZA" >>

WideRow(c) == Row(100, c, "Dev", 2, "Fixed")

\* Sheets with many countries: one row for each of the first k names, then
\* a few more rows of the first name, the k-th name or a blank country.
WideSheets ==
    { [i \in 1..k |-> WideRow(WideNames[i])] \o extra :
        k \in (MaxBase - 1)..MaxBase,
        extra \in SeqsUpTo({WideRow(WideNames[1]), WideRow(WideNames[MaxBase]),
                            WideRow(NaN)}, MaxExtra) }

Sheets == SeqsUpTo(RowDomain, MaxRows) \cup {Scenario} \cup WideSheets

FileStates == {"ok", "missing", "unreadable"}

\* --------------------------------------------------------------- state
VARIABLES
    fileStatus, fileData,      \* freelance_dashboard_data.xlsx on disk
    cache,                     \* the st.cache_data entry of load_data: <<>> or <<entry>>
    readCount,                 \* calls of pd.read_excel so far
    selection,                 \* the selectbox's widget state of the session
    trigger,                   \* what started the current run
    pc,                        \* position of the current run
    rendered,                  \* elements the current run has put on the page
    df, total_jobs, avg_price, unique_countries, options, selected_country,
    df_filtered, market_analysis, country_counts, job_type_counts

vars ==
    << fileStatus, fileData, cache, readCount, selection, trigger, pc, rendered,
       df, total_jobs, avg_price, unique_countries, options, selected_country,
       df_filtered, market_analysis, country_counts, job_type_counts >>

runVars ==
    << df, total_jobs, avg_price, unique_countries, options, selected_country,
       df_filtered, market_analysis, country_counts, job_type_counts >>

Unset == 0 - 1
UnsetMean == << Unset, 0 >>
NaNMean == << 0, 0 >>

\* A run starts with the script's globals undefined and an empty page.
FreshRun ==
    /\ pc' = "load"
    /\ rendered' = {}
    /\ df' = << >>
    /\ total_jobs' = Unset
    /\ avg_price' = UnsetMean
    /\ unique_countries' = Unset
    /\ options' = << >>
    /\ selected_country' = AllCountries
    /\ df_filtered' = << >>
    /\ market_analysis' = << >>
    /\ country_counts' = << >>
    /\ job_type_counts' = << >>

Init ==
    /\ fileStatus \in FileStates
    /\ fileData \in Sheets
    /\ cache = << >>
    /\ readCount = 0
    /\ selection = AllCountries
    /\ trigger = "initial"
    /\ pc = "load"
    /\ rendered = {}
    /\ df = << >>
    /\ total_jobs = Unset
    /\ avg_price = UnsetMean
    /\ unique_countries = Unset
    /\ options = << >>
    /\ selected_country = AllCountries
    /\ df_filtered = << >>
    /\ market_analysis = << >>
    /\ country_counts = << >>
    /\ job_type_counts = << >>

\* ------------------------------------------------------ pandas helpers
Column(d, name) == [i \in 1..Len(d) |-> d[i][name]]

RECURSIVE SumSeq(_)
SumSeq(s) == IF s = << >> THEN 0 ELSE Head(s) + SumSeq(Tail(s))

RECURSIVE GCD(_, _)
GCD(a, b) == IF b = 0 THEN a ELSE GCD(b, a % b)

\* Series.mean(): nan for an empty series.
Mean(s) ==
    IF s = << >> THEN NaNMean
    ELSE LET g == GCD(SumSeq(s), Len(s))
         IN  << SumSeq(s) \div g, Len(s) \div g >>

\* Series.unique(): the distinct values in order of first appearance, all
\* nan counted as one value.
RECURSIVE Unique(_)
Unique(col) ==
    IF col = << >> THEN << >>
    ELSE LET front == Unique(SubSeq(col, 1, Len(col) - 1))
             last == col[Len(col)]
         IN  IF \E i \in 1..Len(front) : front[i] = last
             THEN front
             ELSE Append(front, last)

DropNaN(s) == SelectSeq(s, LAMBDA x : x # NaN)

\* Series.nunique(): dropna=True.
NUnique(col) == Len(DropNaN(Unique(col)))

Reverse(s) == [i \in 1..Len(s) |-> s[Len(s) + 1 - i]]

RECURSIVE InsertAsc(_, _)
InsertAsc(s, x) ==
    IF s = << >> THEN << x >>
    ELSE IF StrLess(x, Head(s)) THEN << x >> \o s
    ELSE << Head(s) >> \o InsertAsc(Tail(s), x)

\* sorted() on a list of str.
RECURSIVE Sorted(_)
Sorted(l) ==
    IF l = << >> THEN << >>
    ELSE InsertAsc(Sorted(SubSeq(l, 1, Len(l) - 1)), l[Len(l)])

\* sorted() compares its elements as soon as there are two of them, and
\* comparing a str with the float nan raises TypeError.
SortedRaises(l) == Len(l) >= 2 /\ \E i \in 1..Len(l) : l[i] = NaN

\* ------------------------------------------------- the stages' helpers
\* st.cache_data: the stored entry of load_data(), if there is one.
CacheLookup_NoMemo == << >>

CacheLookup == cache

\* df.empty
IsEmpty_Never(d) == FALSE

IsEmpty(d) == Len(d) = 0

\* The frame the overview metrics are computed from.
OverviewInput_Filtered ==
    IF selection # AllCountries
    THEN SelectSeq(df, LAMBDA r : Eq(r.client_country, selection))
    ELSE df

OverviewInput == df

\* df[df['client_country'] == v]
Mask(d, v) == SelectSeq(d, LAMBDA r : Eq(r.client_country, v))

\* The if/else of the filter.
FilterRows_NoSentinel(d, sel) == Mask(d, sel)

FilterRows(d, sel) == IF sel # AllCountries THEN Mask(d, sel) ELSE d

\* The frame the three aggregations are computed from.
AggInput_Unfiltered == df

AggInput == df_filtered

\* d.groupby(key)[val].mean().reset_index(): one row per non-nan key, keys
\* ascending, as <<key, mean>>.
GroupByMean(d, key, val) ==
    LET keys == Sorted(DropNaN(Unique(Column(d, key))))
    IN  [i \in 1..Len(keys) |->
            << keys[i],
               Mean(Column(SelectSeq(d, LAMBDA r : r[key] = keys[i]), val)) >>]

\* pd.merge(left, right, on='Skill_Category'): the inner join, in the order
\* of the left frame's rows.
RECURSIVE Merge_Cross(_, _)
Merge_Cross(left, right) ==
    IF left = << >> THEN << >>
    ELSE [j \in 1..Len(right) |->
             [Skill_Category |-> Head(left)[1], Price_USD |-> Head(left)[2],
              Freelancer_Friction_Index |-> right[j][2]]]
         \o Merge_Cross(Tail(left), right)

RECURSIVE Merge(_, _)
Merge(left, right) ==
    IF left = << >> THEN << >>
    ELSE LET hits == SelectSeq(right, LAMBDA r : r[1] = Head(left)[1])
         IN  [j \in 1..Len(hits) |->
                 [Skill_Category |-> Head(left)[1], Price_USD |-> Head(left)[2],
                  Freelancer_Friction_Index |-> hits[j][2]]]
             \o Merge(Tail(left), right)

\* Insert pair x = <<key, count>> behind every pair whose count is >= its own.
RECURSIVE InsertDesc(_, _)
InsertDesc(s, x) ==
    IF s = << >> THEN << x >>
    ELSE IF x[2] > Head(s)[2] THEN << x >> \o s
    ELSE << Head(s) >> \o InsertDesc(Tail(s), x)

\* A stable sort by count, largest first.
RECURSIVE SortDesc(_)
SortDesc(s) ==
    IF s = << >> THEN << >>
    ELSE InsertDesc(SortDesc(SubSeq(s, 1, Len(s) - 1)), s[Len(s)])

\* The order pandas leaves keys of equal count in is not specified: either
\* the order of first appearance or its reverse.
TieOrders == {"first", "last"}

\* Series.value_counts() with dropna=False.
ValueCounts_KeepNaN(col, tie) ==
    LET keys == Unique(col)
        ordered == IF tie = "first" THEN keys ELSE Reverse(keys)
    IN  SortDesc([i \in 1..Len(ordered) |->
            << ordered[i],
               Len(SelectSeq(col, LAMBDA x : x = ordered[i])) >>])

\* Series.value_counts(): nan dropped, one <<value, count>> per value,
\* largest count first.
ValueCounts(col, tie) ==
    LET keys == DropNaN(Unique(col))
        ordered == IF tie = "first" THEN keys ELSE Reverse(keys)
    IN  SortDesc([i \in 1..Len(ordered) |->
            << ordered[i],
               Len(SelectSeq(col, LAMBDA x : x = ordered[i])) >>])

\* Series.nlargest(n) without the cut to n entries.
NLargest_NoCut(s, n) == SortDesc(s)

\* Series.nlargest(n), keep='first'.
NLargest(s, n) == SubSeq(SortDesc(s), 1, Min(n, Len(s)))

\* ------------------------------------------------------------- actions
\* Line 30, df = load_data(), with the decorator of line 19.
LoadData ==
    /\ pc = "load"
    /\ IF CacheLookup # << >>
       THEN \* hit: the stored value, and the st.error stored with it, replayed
            /\ df' = CacheLookup[1].value
            /\ rendered' = IF CacheLookup[1].err
                           THEN rendered \cup {"error"} ELSE rendered
            /\ pc' = "check"
            /\ UNCHANGED << cache, readCount >>
       ELSE /\ readCount' = readCount + 1
            /\ CASE fileStatus = "ok" ->
                      /\ df' = fileData
                      /\ cache' = << [value |-> fileData, err |-> FALSE] >>
                      /\ pc' = "check"
                      /\ UNCHANGED rendered
                 [] fileStatus = "missing" ->
                      \* FileNotFoundError: st.error, an empty frame returned
                      /\ df' = << >>
                      /\ cache' = << [value |-> << >>, err |-> TRUE] >>
                      /\ rendered' = rendered \cup {"error"}
                      /\ pc' = "check"
                 [] fileStatus = "unreadable" ->
                      \* any other exception leaves load_data: nothing is
                      \* stored and the run ends with the exception shown
                      /\ pc' = "crashed"
                      /\ rendered' = rendered \cup {"exception"}
                      /\ UNCHANGED << cache, df >>
    /\ UNCHANGED << fileStatus, fileData, selection, trigger, total_jobs,
                    avg_price, unique_countries, options, selected_country,
                    df_filtered, market_analysis, country_counts,
                    job_type_counts >>

\* Lines 33-34.
CheckEmpty ==
    /\ pc = "check"
    /\ pc' = IF IsEmpty(df) THEN "stopped" ELSE "overview"
    /\ UNCHANGED << fileStatus, fileData, cache, readCount, selection, trigger,
                    rendered, runVars >>

\* Lines 39-57.
Overview ==
    /\ pc = "overview"
    /\ total_jobs' = Len(OverviewInput)
    /\ avg_price' = Mean(Column(OverviewInput, "Price_USD"))
    /\ unique_countries' = NUnique(Column(OverviewInput, "client_country"))
    /\ rendered' = rendered \cup {"title", "metrics"}
    /\ pc' = "select"
    /\ UNCHANGED << fileStatus, fileData, cache, readCount, selection, trigger,
                    df, options, selected_country, df_filtered,
                    market_analysis, country_counts, job_type_counts >>

\* Lines 61-68.
Selectbox ==
    /\ pc = "select"
    /\ LET vals == Unique(Column(df, "client_country"))
       IN  IF SortedRaises(vals)
           THEN /\ pc' = "crashed"
                /\ rendered' = rendered \cup {"exception"}
                /\ UNCHANGED << options, selected_country >>
           ELSE /\ options' = << AllCountries >> \o Sorted(vals)
                /\ selected_country' = selection
                /\ rendered' = rendered \cup {"selectbox"}
                /\ pc' = "filter"
    /\ UNCHANGED << fileStatus, fileData, cache, readCount, selection, trigger,
                    df, total_jobs, avg_price, unique_countries, df_filtered,
                    market_analysis, country_counts, job_type_counts >>

\* Lines 70-75.
ApplyFilter ==
    /\ pc = "filter"
    /\ df_filtered' = FilterRows(df, selected_country)
    /\ rendered' = IF selected_country # AllCountries
                   THEN rendered \cup {"viewing"} ELSE rendered
    /\ pc' = "scatter"
    /\ UNCHANGED << fileStatus, fileData, cache, readCount, selection, trigger,
                    df, total_jobs, avg_price, unique_countries, options,
                    selected_country, market_analysis, country_counts,
                    job_type_counts >>

\* Lines 77-113.
MarketAnalysis ==
    /\ pc = "scatter"
    /\ LET avg_price_by_skill ==
               GroupByMean(AggInput, "Skill_Category", "Price_USD")
           avg_friction_by_skill ==
               GroupByMean(AggInput, "Skill_Category",
                           "Freelancer_Friction_Index")
       IN  market_analysis' = Merge(avg_price_by_skill, avg_friction_by_skill)
    /\ rendered' = rendered \cup {"chart1"}
    /\ pc' = "bar"
    /\ UNCHANGED << fileStatus, fileData, cache, readCount, selection, trigger,
                    df, total_jobs, avg_price, unique_countries, options,
                    selected_country, df_filtered, country_counts,
                    job_type_counts >>

\* Lines 118-147.
CountryCounts ==
    /\ pc = "bar"
    /\ \E tie \in TieOrders :
         LET top == NLargest(ValueCounts(Column(AggInput, "client_country"),
                                         tie), TopN)
         IN  country_counts' =
                 [i \in 1..Len(top) |->
                     [Country |-> top[i][1], Job_Count |-> top[i][2]]]
    /\ rendered' = rendered \cup {"chart2"}
    /\ pc' = "pie"
    /\ UNCHANGED << fileStatus, fileData, cache, readCount, selection, trigger,
                    df, total_jobs, avg_price, unique_countries, options,
                    selected_country, df_filtered, market_analysis,
                    job_type_counts >>

\* Lines 149-178.
JobTypeCounts ==
    /\ pc = "pie"
    /\ \E tie \in TieOrders :
         LET counts == ValueCounts(Column(AggInput, "Job_Type"), tie)
         IN  job_type_counts' =
                 [i \in 1..Len(counts) |->
                     [Job_Type |-> counts[i][1], Count |-> counts[i][2]]]
    /\ rendered' = rendered \cup {"chart3"}
    /\ pc' = "done"
    /\ UNCHANGED << fileStatus, fileData, cache, readCount, selection, trigger,
                    df, total_jobs, avg_price, unique_countries, options,
                    selected_country, df_filtered, market_analysis,
                    country_counts >>

\* The user picks another option of the selectbox (line 65): the widget
\* keeps the choice and the script runs again from the top.
SelectCountry ==
    /\ pc = "done"
    /\ "selectbox" \in rendered
    /\ \E i \in 1..Len(options) :
         /\ options[i] # selection
         /\ selection' = options[i]
    /\ trigger' = "filter_change"
    /\ FreshRun
    /\ UNCHANGED << fileStatus, fileData, cache, readCount >>

\* The page is loaded again: a new session, whose widgets start at their
\* defaults, in the same process.
Reload ==
    /\ pc \in {"done", "stopped", "crashed"}
    /\ cache # << >> \/ readCount < MaxReads
    /\ selection' = AllCountries
    /\ trigger' = "reload"
    /\ FreshRun
    /\ UNCHANGED << fileStatus, fileData, cache, readCount >>

\* Between runs the file is put in place, removed or made unreadable.
FileChange ==
    /\ pc \in {"done", "stopped", "crashed"}
    /\ \E s \in FileStates \ {fileStatus} : fileStatus' = s
    /\ UNCHANGED << fileData, cache, readCount, selection, trigger, pc,
                    rendered, runVars >>

Next ==
    \/ LoadData
    \/ CheckEmpty
    \/ Overview
    \/ Selectbox
    \/ ApplyFilter
    \/ MarketAnalysis
    \/ CountryCounts
    \/ JobTypeCounts
    \/ SelectCountry
    \/ Reload
    \/ FileChange

Spec == Init /\ [][Next]_vars

\* ---------------------------------------- vocabulary of the properties
\* These are written on sets of row numbers, not with the operators the
\* stages are modelled with.
PostSelect == pc \in {"filter", "scatter", "bar", "pie", "done"}
PostFilter == pc \in {"scatter", "bar", "pie", "done"}
PostScatter == pc \in {"bar", "pie", "done"}
PostBar == pc \in {"pie", "done"}

DashboardParts ==
    {"title", "metrics", "selectbox", "viewing", "chart1", "chart2", "chart3"}

\* The row numbers of d whose column col holds v.
RowsWith(d, col, v) == {i \in 1..Len(d) : d[i][col] = v}

\* The values of column col of d, blanks left out.
ValuesOf(d, col) == {d[i][col] : i \in 1..Len(d)} \ {NaN}

\* The k-th smallest member of a set of numbers.
KthOf(S, k) == CHOOSE i \in S : Cardinality({j \in S : j < i}) = k - 1

\* f holds exactly the rows of d numbered in S, in d's order.
IsRowsAt(f, d, S) ==
    /\ Len(f) = Cardinality(S)
    /\ \A k \in 1..Len(f) : f[k] = d[KthOf(S, k)]

RECURSIVE SetSum(_, _, _)
SetSum(d, col, S) ==
    IF S = {} THEN 0
    ELSE LET i == CHOOSE j \in S : TRUE
         IN  d[i][col] + SetSum(d, col, S \ {i})

\* m is the arithmetic mean of column col over the rows of d numbered in S.
IsMeanOf(m, d, col, S) ==
    /\ S # {}
    /\ m[2] > 0
    /\ m[1] * Cardinality(S) = m[2] * SetSum(d, col, S)

\* The overview metrics are those of the whole frame d.
OverviewOf(d) ==
    /\ total_jobs = Cardinality(DOMAIN d)
    /\ IsMeanOf(avg_price, d, "Price_USD", DOMAIN d)
    /\ unique_countries = Cardinality(ValuesOf(d, "client_country"))

\* The selection equals the country of no row (a blank equals nothing).
ZeroMatch ==
    \A i \in 1..Len(df) : ~Eq(df[i].client_country, selected_country)

\* ----------------------------------------------------------- properties
\* C1: for every country value v that occurs in the frame's client_country
\* column, the filter with selection v returns exactly the rows whose
\* client_country is v, in their original order.
C1_FilterExactRows ==
    (/\ PostFilter
     /\ selected_country # NaN
     /\ RowsWith(df, "client_country", selected_country) # {})
    => IsRowsAt(df_filtered, df,
                RowsWith(df, "client_country", selected_country))

\* C1 on every selection but the string 'All Countries' (a supporting check).
C1_FilterExactRowsOfCountry ==
    (/\ PostFilter
     /\ selected_country \notin {NaN, AllCountries}
     /\ RowsWith(df, "client_country", selected_country) # {})
    => IsRowsAt(df_filtered, df,
                RowsWith(df, "client_country", selected_country))

\* C2: with the selection 'All Countries' the filter returns the loaded
\* frame itself, same rows in the same order.
C2_AllCountriesIdentity ==
    (PostFilter /\ selected_country = AllCountries)
    => (cache # << >> /\ df_filtered = cache[1].value /\ df_filtered = df)

C2_Witness ==
    /\ pc = "done"
    /\ trigger = "filter_change"
    /\ selected_country = AllCountries
    /\ Len(df_filtered) >= 2
    /\ Cardinality(ValuesOf(df_filtered, "client_country")) >= 2

\* C3: when the load fails (file missing, unreadable, or an empty table) the
\* run halts with nothing of the dashboard rendered; whatever part of the
\* dashboard is on the page, a non-empty frame was loaded.
C3_NoDashboardWithoutData ==
    /\ (rendered \cap DashboardParts # {})
       => (/\ cache # << >>
           /\ ~cache[1].err
           /\ Len(cache[1].value) > 0
           /\ df = cache[1].value)
    /\ (pc # "load" /\ Len(df) = 0)
       => (/\ pc \in {"check", "stopped", "crashed"}
           /\ rendered \cap DashboardParts = {})

C3_Witness ==
    /\ pc = "stopped"
    /\ rendered = {"error"}
    /\ trigger = "reload"
    /\ fileStatus = "ok"

\* C4: whatever the selection, the overview metrics are those of the
\* unfiltered frame: its row count, the mean price over all its rows and
\* the number of its distinct countries.
C4_OverviewUnfiltered ==
    (total_jobs # Unset) => (cache # << >> /\ OverviewOf(cache[1].value))

C4_Witness ==
    /\ pc = "done"
    /\ trigger = "filter_change"
    /\ selected_country # AllCountries
    /\ Len(df_filtered) > 0
    /\ Len(df_filtered) < Len(df)
    /\ total_jobs = Len(df)

\* C5 as stated: the counts of JobTypeCounts add up to the number of rows
\* of the input, and each is the number of input rows of its job type.
C5_SumIsRowCount ==
    (pc = "done")
    => /\ SetSum(job_type_counts, "Count", DOMAIN job_type_counts)
              = Len(df_filtered)
       /\ \A i \in DOMAIN job_type_counts :
              job_type_counts[i].Count =
                  Cardinality(RowsWith(df_filtered, "Job_Type",
                                       job_type_counts[i].Job_Type))

\* C5 amended: JobTypeCounts has one entry for each job type that occurs,
\* none for a blank, each count is the number of input rows of that job
\* type, and the counts add up to the number of input rows whose job type
\* is not blank.
C5_SumIsNonBlankRowCount ==
    (pc = "done")
    => /\ \A i \in DOMAIN job_type_counts :
              /\ job_type_counts[i].Job_Type
                     \in ValuesOf(df_filtered, "Job_Type")
              /\ job_type_counts[i].Count =
                     Cardinality(RowsWith(df_filtered, "Job_Type",
                                          job_type_counts[i].Job_Type))
       /\ \A t \in ValuesOf(df_filtered, "Job_Type") :
              Cardinality({i \in DOMAIN job_type_counts :
                              job_type_counts[i].Job_Type = t}) = 1
       /\ SetSum(job_type_counts, "Count", DOMAIN job_type_counts)
              = Cardinality({i \in 1..Len(df_filtered) :
                                df_filtered[i].Job_Type # NaN})

C5_Witness ==
    /\ pc = "done"
    /\ selected_country = "IN"
    /\ Len(job_type_counts) >= 1
    /\ \E i \in 1..Len(df_filtered) : df_filtered[i].Job_Type = NaN

\* C6: CountryCounts has at most 10 entries, counts non-increasing, each
\* the number of input rows of its country; no country left out has a
\* larger count than one included; with at most 10 distinct countries all
\* of them appear.
C6_TopCountries ==
    PostBar
    => LET all == ValuesOf(df_filtered, "client_country")
           shown == {country_counts[i].Country : i \in DOMAIN country_counts}
           n(c) == Cardinality(RowsWith(df_filtered, "client_country", c))
       IN  /\ Len(country_counts) <= 10
           /\ \A i, j \in DOMAIN country_counts :
                  i < j => /\ country_counts[i].Job_Count
                                >= country_counts[j].Job_Count
                           /\ country_counts[i].Country
                                # country_counts[j].Country
           /\ \A i \in DOMAIN country_counts :
                  /\ country_counts[i].Country \in all
                  /\ country_counts[i].Job_Count
                         = n(country_counts[i].Country)
           /\ \A c \in all \ shown : \A d \in shown : n(c) <= n(d)
           /\ Cardinality(all) <= 10 => shown = all

C6_Witness ==
    /\ pc = "done"
    /\ Cardinality(ValuesOf(df_filtered, "client_country")) > 10
    /\ Len(country_counts) = 10
    /\ country_counts[1].Job_Count > country_counts[10].Job_Count
    /\ country_counts[1].Country # df_filtered[1].client_country

\* C7: CategoryMetrics has exactly one entry for each skill category of the
\* filtered rows and none for any other; the entry holds the mean price and
\* the mean friction index of exactly the filtered rows of its category.
C7_CategoryMeans ==
    PostScatter
    => LET cats == ValuesOf(df_filtered, "Skill_Category")
       IN  /\ \A i \in DOMAIN market_analysis :
                  LET c == market_analysis[i].Skill_Category
                      S == RowsWith(df_filtered, "Skill_Category", c)
                  IN  /\ c \in cats
                      /\ IsMeanOf(market_analysis[i].Price_USD,
                                  df_filtered, "Price_USD", S)
                      /\ IsMeanOf(market_analysis[i].Freelancer_Friction_Index,
                                  df_filtered, "Freelancer_Friction_Index", S)
           /\ \A c \in cats :
                  Cardinality({i \in DOMAIN market_analysis :
                                  market_analysis[i].Skill_Category = c}) = 1

\* The three-row scenario filtered to "US": Writing (100, 0.8), Dev (300, 0.2).
C7_Witness ==
    /\ pc = "done"
    /\ df = Scenario
    /\ selected_country = "US"
    /\ {market_analysis[i] : i \in DOMAIN market_analysis} =
           { [Skill_Category |-> "Writing", Price_USD |-> << 100, 1 >>,
              Freelancer_Friction_Index |-> << 8, 1 >>],
             [Skill_Category |-> "Dev", Price_USD |-> << 300, 1 >>,
              Freelancer_Friction_Index |-> << 2, 1 >>] }
    /\ Len(market_analysis) = 2

\* C8: when the selection matches no row of a non-empty frame, the run
\* completes with no error, the three aggregates are empty and the overview
\* metrics are those of the unfiltered frame.
C8_EmptySelection ==
    (/\ pc = "done"
     /\ Len(df) > 0
     /\ selected_country # AllCountries
     /\ ZeroMatch)
    => /\ "exception" \notin rendered
       /\ df_filtered = << >>
       /\ market_analysis = << >>
       /\ country_counts = << >>
       /\ job_type_counts = << >>
       /\ OverviewOf(df)

C8_Witness ==
    /\ pc = "done"
    /\ Len(df) > 0
    /\ selected_country # AllCountries
    /\ ZeroMatch
    /\ {"chart1", "chart2", "chart3"} \subseteq rendered

\* C9: once load_data has a memoized result, no later run reads the file
\* again and no stage changes the memoized frame; a run started by a change
\* of the selection always finds the memoized result, and when only the
\* initial run came before it the file has been read exactly once.
C9_ReadOnce ==
    [][/\ (cache # << >>) => (cache' = cache /\ readCount' = readCount)
       /\ (trigger' = "filter_change")
              => (cache # << >> /\ (trigger = "initial" => readCount = 1))]_vars

C9_Witness ==
    /\ pc = "done"
    /\ trigger = "filter_change"
    /\ readCount = 1
    /\ fileStatus # "ok"
    /\ df = fileData

\* C10: the control offers 'All Countries' and then each distinct country
\* once, ascending, for every loaded frame, and every option selects at
\* least one row, so that no filter result is empty.
C10_OptionsNeverEmpty ==
    /\ (total_jobs # Unset) => (pc # "crashed")
    /\ PostSelect
       => /\ options[1] = AllCountries
          /\ Len(options) =
                 1 + Cardinality({df[i].client_country : i \in 1..Len(df)})
          /\ \A i \in 2..Len(options) :
                 /\ \E r \in 1..Len(df) : df[r].client_country = options[i]
                 /\ \E r \in 1..Len(df) : Eq(df[r].client_country, options[i])
          /\ \A i, j \in 2..Len(options) :
                 i < j => StrLess(options[i], options[j])
    /\ PostFilter => Len(df_filtered) > 0
====
